---- MODULE Spec2Model ----
(***************************************************************************)
(* ColBatchScan (pkg/sql/colfetcher/colbatch_scan.go): the vectorized      *)
(* table-scan operator.  The model covers construction from a              *)
(* TableReaderSpec, the Init / Next / DrainMeta / Close / Release          *)
(* lifecycle driven by one owner goroutine, the metric accessors called    *)
(* from a second goroutine under the operator mutex, and the sync.Pool     *)
(* reuse of the operator and of its cFetcherTableArgs.                     *)
(***************************************************************************)
EXTENDS Integers, Sequences, FiniteSets, TLC

\* ------------------------------------------------------------------ bounds

\* Span keys are 1..NumKeys; 0 is the zero roachpb.Span.
NumKeys == 2
\* spec.LimitHint, spec.BatchBytesLimit and post.Limit range over 0..MaxLimit.
MaxLimit == 1
\* A batch returned by the fetch engine has 0..MaxBatchLen rows.
MaxBatchLen == 2
\* Each NextBatch reads 0..MaxBatchBytes bytes from KV.
MaxBatchBytes == 1
\* The owner calls Next at most MaxNext times per operator, and once more when
\* the scan is exhausted by then.
MaxNext == 2
\* The ordinals of spec.NeededColumns range over 0..MaxOrdinal.
MaxOrdinal == 3

\* ------------------------------------------------------- program constants

\* rowinfra.DefaultBatchBytesLimit (10 MiB), used when the spec sets no limit.
DefaultBatchBytesLimit == 10485760

\* ------------------------------------------------------------- Go slices

\* A slice is its length and its whole backing array (Len(arr) = capacity).
\* Slots at or beyond len are invisible to readers but keep their referents
\* alive.  The zero element (nil pointer, zero Span) is 0.
NilSlice == [len |-> 0, arr |-> << >>]

SliceCap(sl) == Len(sl.arr)

SliceElems(sl) == SubSeq(sl.arr, 1, sl.len)

\* sl[:0]
Truncate(sl) == [len |-> 0, arr |-> sl.arr]

\* append(sl, xs...): in place while the capacity suffices, otherwise into a
\* new backing array (modelled with the capacity exactly needed).
SliceAppend(sl, xs) ==
    LET n == sl.len + Len(xs)
    IN  IF n <= SliceCap(sl)
        THEN [len |-> n,
              arr |-> [i \in 1..SliceCap(sl) |->
                         IF i > sl.len /\ i <= n THEN xs[i - sl.len] ELSE sl.arr[i]]]
        ELSE [len |-> n, arr |-> SliceElems(sl) \o xs]

\* for i := range sl { sl[i] = zero }
ZeroElems(sl) ==
    [len |-> sl.len,
     arr |-> [i \in 1..SliceCap(sl) |-> IF i <= sl.len THEN 0 ELSE sl.arr[i]]]

\* No slot of the backing array references anything.
BackingClear(sl) == \A i \in 1..SliceCap(sl) : sl.arr[i] = 0

\* -------------------------------------------------------- table catalog

\* The scanned table: columns 1 and 2 are public, column 3 is readable but
\* not public, column 4 is a system column.  InvertedCol is the inverted
\* variant of column 2: same ID, different type.
PublicColumns == << 1, 2 >>

ReadableColumns == << 1, 2, 3 >>

SystemColumns == << 4 >>

InvertedCol == 12

GetID(col) == IF col = InvertedCol THEN 2 ELSE col

GetType(col) == 100 + col

\* ------------------------------------------------------------- metadata

\* The range cache: the range holding span key k lives on node k.
RangeNode(key) == key

\* execinfra.MisplannedRanges: the ranges of the spans that are not on nodeID;
\* the empty sequence is the nil result.
MisplannedRanges(spans, nodeID) ==
    SelectSeq(spans, LAMBDA k : k # 0 /\ RangeNode(k) # nodeID)

\* execinfra.LimitHint: the post-processing limit takes priority over the
\* spec's limit hint.
LimitHint(specLimitHint, postLimit) ==
    IF postLimit # 0 THEN postLimit ELSE specLimitHint

\* ------------------------------------------------------------------ state

VARIABLES
    s,                      \* the ColBatchScan the owner holds (ZeroOp if none)
    owned,                  \* TRUE between a successful NewColBatchScan and Release
    rf,                     \* the cFetcher behind s.rf
    tableArgs,              \* the cFetcherTableArgs handed to the cFetcher
    colBatchScanPool,       \* released operators waiting in the sync.Pool
    cFetcherTableArgsPool,  \* released cFetcherTableArgs waiting in the sync.Pool
    newResult,              \* the last NewColBatchScan call: its spec and outcome
    mu,                     \* holder of s.mu: "free", "next" or "obs"
    nextPc,                 \* position of the owner inside Next
    bat,                    \* the batch the in-flight Next got from NextBatch
    obs,                    \* the metrics goroutine: position and last result
    hist                    \* what the owner has observed of this operator

vars == << s, owned, rf, tableArgs, colBatchScanPool, cFetcherTableArgsPool,
           newResult, mu, nextPc, bat, obs, hist >>

NoNodeID == [ok |-> FALSE, id |-> 0]

NoFlowCtx == [set |-> FALSE, Local |-> FALSE, NodeID |-> NoNodeID]

\* &ColBatchScan{}
ZeroOp ==
    [Spans |-> NilSlice, SpansCopy |-> NilSlice, Ctx |-> FALSE,
     flowCtx |-> NoFlowCtx, rf |-> FALSE, limitHint |-> 0,
     batchBytesLimit |-> 0, parallelize |-> FALSE, tracingSpan |-> FALSE,
     rowsRead |-> 0, ResultTypes |-> << >>]

\* &cFetcherTableArgs{}
ZeroArgs ==
    [desc |-> FALSE, cols |-> NilSlice, typs |-> NilSlice, ValNeededForCol |-> {}]

\* A cFetcher as it comes out of cFetcherPool: no KV fetcher yet.
ZeroFetcher ==
    [fetcher |-> FALSE, bytesRead |-> 0, finished |-> FALSE, closed |-> FALSE]

NoBatch == [len |-> 0, sel |-> FALSE]

\* The arguments recorded while no NewColBatchScan call has been made.
NoInput ==
    [Local |-> TRUE, NodeID |-> NoNodeID, IsCheck |-> FALSE, LimitHint |-> 0,
     BatchBytesLimit |-> 0, Parallelize |-> FALSE, PostLimit |-> 0,
     Spans |-> << >>, PublicAndNotPublic |-> FALSE, HasSystemColumns |-> FALSE,
     Inverted |-> FALSE, NeededColumns |-> {}, HydrateErr |-> FALSE,
     FetcherInitErr |-> FALSE]

NoResult == [status |-> "none", class |-> "", in |-> NoInput]

\* Calls on colBatchScanPool (op), cFetcherPool (rf) and
\* cFetcherTableArgsPool (args).
NoPoolCalls == [op |-> 0, rf |-> 0, args |-> 0]

\* The record of a populateTableArgs call that did not happen.
NoAcquire ==
    [reused |-> FALSE, capCols |-> 0, capTyps |-> 0, n |-> 0,
     newCols |-> FALSE, newTyps |-> FALSE]

\* returned: the rows of the batches Next has returned; nextCalls,
\* nextBatchCalls, startScanCalls: calls of Next and of the fetch engine;
\* initCalls, closeCalls, drains: 0, 1, or 2 for two or more calls;
\* spansOpened, spansFinished: tracing spans; failed: the error Init or Next
\* raised; lastStart, lastBatch: the last answers of the fetch engine;
\* lastDrain, drainEnv: the last DrainMeta result and what it was given;
\* Release keeps failed, lastClose, spansOpened, spansFinished, gets, puts
\* and charged of the operator it released and clears the rest.
\* exhausted: Next has returned an empty batch;
\* lastClose: "nil" while the owner's last call was a Close (its return
\* value), "" otherwise;
\* acquired: what populateTableArgs did with the pooled slices; opReused:
\* colBatchScanPool.Get handed out a released operator;
\* gets, puts: the Get and Put calls on the three pools since the last
\* NewColBatchScan call began; charged: what that call charged to the
\* allocator for the span copy, less what has been given back since.
ZeroHist ==
    [returned |-> 0, nextCalls |-> 0, nextBatchCalls |-> 0, initCalls |-> 0,
     startScanCalls |-> 0, spansOpened |-> 0, spansFinished |-> 0,
     closeCalls |-> 0, failed |-> "", lastStart |-> "",
     lastBatch |-> [sel |-> FALSE, err |-> FALSE],
     drains |-> 0, nextSinceDrain |-> FALSE, lastDrain |-> << >>,
     drainEnv |-> [tfs |-> FALSE, trace |-> FALSE],
     exhausted |-> FALSE, lastClose |-> "", acquired |-> NoAcquire,
     opReused |-> FALSE, gets |-> NoPoolCalls, puts |-> NoPoolCalls, charged |-> 0]

\* A call counter that stops at "two or more".
Again(n) == IF n < 2 THEN n + 1 ELSE n

IdleObs == [pc |-> "idle", op |-> "", val |-> 0, lo |-> 0, hi |-> 0]

Init ==
    /\ s = ZeroOp
    /\ owned = FALSE
    /\ rf = ZeroFetcher
    /\ tableArgs = ZeroArgs
    /\ colBatchScanPool = << >>
    /\ cFetcherTableArgsPool = << >>
    /\ newResult = NoResult
    /\ mu = "free"
    /\ nextPc = "idle"
    /\ bat = NoBatch
    /\ obs = IdleObs
    /\ hist = ZeroHist

\* ---------------------------------------------------------- construction

\* Ascending sequences of span keys (the spec's spans are ordered and
\* non-overlapping).
RECURSIVE AscendingFrom(_)
AscendingFrom(k) ==
    IF k > NumKeys THEN { << >> }
    ELSE LET rest == AscendingFrom(k + 1)
         IN  rest \cup { << k >> \o r : r \in rest }

SpanLists == AscendingFrom(1)

NodeIDs == { NoNodeID, [ok |-> TRUE, id |-> 0], [ok |-> TRUE, id |-> 1] }

UsableNodeIDs == { NoNodeID, [ok |-> TRUE, id |-> 1] }

\* Everything NewColBatchScan reads from its arguments, and the outcome of the
\* two collaborators that can fail (type hydration, cFetcher.Init).  limits
\* is the range of the three limits, flags that of IsCheck and Parallelize,
\* shapes that of the three table-shape flags, errs that of the two failures,
\* needed that of spec.NeededColumns (as the set of its ordinals).
InputSet(nodeIDs, locals, spanLists, limits, flags, shapes, errs, needed) ==
    [Local : locals, NodeID : nodeIDs, IsCheck : flags,
     LimitHint : limits, BatchBytesLimit : limits,
     Parallelize : flags, PostLimit : limits, Spans : spanLists,
     PublicAndNotPublic : shapes, HasSystemColumns : shapes,
     Inverted : shapes, NeededColumns : needed, HydrateErr : errs,
     FetcherInitErr : errs]

\* sync.Pool.Get: a released object if the pool kept one, else a new one.
PoolGet(pool, reuse, zero) == IF reuse /\ pool # << >> THEN Head(pool) ELSE zero

\* The inverted column replaces the first column with the same ID, in place.
SubstituteInverted(cols) ==
    LET hits == { i \in 1..cols.len : GetID(cols.arr[i]) = GetID(InvertedCol) }
    IN  IF hits = {} THEN cols
        ELSE LET first == CHOOSE i \in hits : \A j \in hits : i <= j
             IN  [cols EXCEPT !.arr[first] = InvertedCol]

\* make([]*types.T, n) when the capacity is too small, else typs[:n]; then
\* typs[i] = cols[i].GetType().
FillTypes(typs, cols) ==
    LET base == IF SliceCap(typs) < cols.len
                THEN [i \in 1..cols.len |-> 0]
                ELSE typs.arr
    IN  [len |-> cols.len,
         arr |-> [i \in 1..Len(base) |->
                    IF i <= cols.len THEN GetType(cols.arr[i]) ELSE base[i]]]

\* Lines 343-359: the columns of the projection, built on args.cols[:0].
ProjectionCols(args, in) ==
    LET c0 == Truncate(args.cols)
        c1 == SliceAppend(c0, IF in.PublicAndNotPublic THEN ReadableColumns
                                                        ELSE PublicColumns)
        c2 == IF in.Inverted THEN SubstituteInverted(c1) ELSE c1
    IN  IF in.HasSystemColumns THEN SliceAppend(c2, SystemColumns) ELSE c2

\* Lines 361-367: *args = cFetcherTableArgs{desc, index, ColIdxMap,
\* isSecondaryIndex, cols}: the literal names no typs, so the assignment sets
\* args.typs to nil whatever the pooled object held.
TypsAfterOverwrite(args) == NilSlice

\* populateTableArgs: args is the object taken from cFetcherTableArgsPool.
populateTableArgs(args, in) ==
    LET c3 == ProjectionCols(args, in)
        \* typs and ValNeededForCol are zeroed by the assignment.
        fresh == [desc |-> TRUE, cols |-> c3, typs |-> TypsAfterOverwrite(args),
                  ValNeededForCol |-> {}]
    IN  [fresh EXCEPT !.typs = FillTypes(fresh.typs, c3)]

\* What one populateTableArgs call did with the slices of the object it took
\* from the pool: reused: the object had been released before; capCols,
\* capTyps: the capacities it came with; n: the number of columns; newCols:
\* append outgrew the capacity of cols and allocated; newTyps: line 368 found
\* cap(args.typs) < len(cols) and line 369 made a new slice.
Acquire(args, in, reused) ==
    LET n == ProjectionCols(args, in).len
    IN  [reused |-> reused, capCols |-> SliceCap(args.cols),
         capTyps |-> SliceCap(args.typs), n |-> n,
         newCols |-> SliceCap(args.cols) < n,
         newTyps |-> SliceCap(TypsAfterOverwrite(args)) < n]

\* Release that truncates cols without clearing the column references.
ArgsReleased_truncateOnly(a) ==
    [desc |-> FALSE, cols |-> Truncate(a.cols), typs |-> Truncate(a.typs),
     ValNeededForCol |-> {}]

\* cFetcherTableArgs.Release, up to the Put.
ArgsReleased(a) ==
    LET oldCols == ZeroElems(a.cols)
    IN  [desc |-> FALSE, cols |-> Truncate(oldCols), typs |-> Truncate(a.typs),
         ValNeededForCol |-> {}]

\* SpansWithCopy.MakeSpansCopy.
MakeSpansCopy(spans, copy) ==
    IF SliceCap(copy) >= spans.len
    THEN [len |-> spans.len,
          arr |-> [i \in 1..SliceCap(copy) |->
                     IF i <= spans.len THEN spans.arr[i] ELSE copy.arr[i]]]
    ELSE [len |-> spans.len, arr |-> SliceElems(spans)]

\* SpansWithCopy.Reset: the spans are dropped and the copy is zeroed and
\* truncated, keeping its capacity.
SpansReset(op) ==
    [op EXCEPT !.Spans = NilSlice, !.SpansCopy = Truncate(ZeroElems(op.SpansCopy))]

\* The spec's flag taken as it is, without the double-check.
SpecParallelize_asRequested(in) == in.Parallelize

\* Lines 270-274: a limit hint or a byte limit switches parallelization off.
SpecParallelize(in) ==
    IF in.LimitHint > 0 \/ in.BatchBytesLimit > 0 THEN FALSE ELSE in.Parallelize

\* Lines 275-281: the byte limit of a non-parallel scan.
SpecBatchBytesLimit(in) ==
    IF ~SpecParallelize(in)
    THEN IF in.BatchBytesLimit = 0 THEN DefaultBatchBytesLimit
                                   ELSE in.BatchBytesLimit
    ELSE 0

\* Lines 256-268: the operator from the pool with the spec's spans appended
\* and, for a non-local flow, copied.
WithSpans(op, in) ==
    LET sp == SliceAppend(Truncate(op.Spans), in.Spans)
    IN  [op EXCEPT !.Spans = sp,
                   !.SpansCopy = IF ~in.Local THEN MakeSpansCopy(sp, op.SpansCopy)
                                              ELSE op.SpansCopy]

\* Lines 283-292: every field but SpansWithCopy is overwritten.
BuildOp(op, in, args) ==
    [ZeroOp EXCEPT !.Spans = op.Spans,
                   !.SpansCopy = op.SpansCopy,
                   !.flowCtx = [set |-> TRUE, Local |-> in.Local, NodeID |-> in.NodeID],
                   !.rf = TRUE,
                   !.limitHint = LimitHint(in.LimitHint, in.PostLimit),
                   !.batchBytesLimit = SpecBatchBytesLimit(in),
                   !.parallelize = SpecParallelize(in),
                   !.ResultTypes = SliceElems(args.typs)]

\* The kind of error behind each outcome: errors.AssertionFailedf for IsCheck
\* (line 201), errors.Errorf for the node identity (line 197), the
\* collaborator's own error for hydration and cFetcher.Init.
ErrorClass(status) ==
    CASE status = "ErrIsCheck" -> "AssertionFailed"
      [] status \in {"ErrNodeID", "ErrHydrate", "ErrFetcherInit"} -> "Error"
      [] OTHER -> ""

ResultOf(in, status) == [status |-> status, class |-> ErrorClass(status), in |-> in]

\* The node identity test without the ok flag.
NodeIDRejected_ignoringOk(nodeID) == nodeID.id = 0

\* Line 196: nodeID == 0 && ok.
NodeIDRejected(nodeID) == nodeID.id = 0 /\ nodeID.ok

\* Lines 196-202: the two checks that return before anything is built.
RejectedEarly(in) == NodeIDRejected(in.NodeID) \/ in.IsCheck

\* No check and no collaborator fails: NewColBatchScan returns an operator.
Constructs(in) == ~RejectedEarly(in) /\ ~in.HydrateErr /\ ~in.FetcherInitErr

\* roachpb.Spans.MemUsage: the slice header and one unit per span.
SpansMemUsage(spans) == 1 + Len(spans)

\* Lines 263-267: allocator.AdjustMemoryUsage(s.Spans.MemUsage()) on a
\* non-local flow.
SpanCopyCharge(in) ==
    IF Constructs(in) /\ ~in.Local THEN SpansMemUsage(in.Spans) ELSE 0

\* The Get calls of one NewColBatchScan: cFetcherTableArgsPool.Get in
\* populateTableArgs (line 342), cFetcherPool.Get (line 223) once the types
\* are hydrated, colBatchScanPool.Get (line 256) once the fetcher is
\* initialized.
PoolGets(in) ==
    [op   |-> IF RejectedEarly(in) \/ in.HydrateErr \/ in.FetcherInitErr THEN 0 ELSE 1,
     rf   |-> IF RejectedEarly(in) \/ in.HydrateErr THEN 0 ELSE 1,
     args |-> IF RejectedEarly(in) THEN 0 ELSE 1]

\* The Put calls of one NewColBatchScan: none but those of fetcher.Release()
\* after a failed cFetcher.Init (line 235), which puts back the fetcher and
\* the cFetcherTableArgs it was given.
PoolPutsOnFailure(in) ==
    IF ~RejectedEarly(in) /\ ~in.HydrateErr /\ in.FetcherInitErr
    THEN [op |-> 0, rf |-> 1, args |-> 1]
    ELSE NoPoolCalls

\* Lines 219-221: every ordinal of spec.NeededColumns is added to
\* ValNeededForCol as it is.
WithNeeded(args, neededColumns) ==
    [args EXCEPT !.ValNeededForCol = @ \cup neededColumns]

\* NewColBatchScan, for one choice of arguments and of what the two pools
\* hand out.
NewColBatchScan(in, reuseArgs, reuseOp) ==
    /\ ~owned
    /\ UNCHANGED << mu, nextPc, bat, obs >>
    /\ hist' = [ZeroHist EXCEPT !.acquired =
                                    IF RejectedEarly(in) THEN NoAcquire
                                    ELSE Acquire(PoolGet(cFetcherTableArgsPool,
                                                         reuseArgs, ZeroArgs),
                                                 in,
                                                 reuseArgs /\ cFetcherTableArgsPool # << >>),
                                !.opReused = Constructs(in) /\ reuseOp
                                                /\ colBatchScanPool # << >>,
                                !.gets = PoolGets(in),
                                !.puts = PoolPutsOnFailure(in),
                                !.charged = SpanCopyCharge(in)]
    /\ IF NodeIDRejected(in.NodeID)
       THEN /\ newResult' = ResultOf(in, "ErrNodeID")
            /\ UNCHANGED << s, owned, rf, tableArgs, colBatchScanPool,
                            cFetcherTableArgsPool >>
       ELSE IF in.IsCheck
       THEN /\ newResult' = ResultOf(in, "ErrIsCheck")
            /\ UNCHANGED << s, owned, rf, tableArgs, colBatchScanPool,
                            cFetcherTableArgsPool >>
       ELSE LET args == populateTableArgs(
                            PoolGet(cFetcherTableArgsPool, reuseArgs, ZeroArgs), in)
            IN  IF in.HydrateErr
                THEN \* return nil, err: args is neither kept nor put back.
                     /\ newResult' = ResultOf(in, "ErrHydrate")
                     /\ cFetcherTableArgsPool' = << >>
                     /\ UNCHANGED << s, owned, rf, tableArgs, colBatchScanPool >>
                ELSE IF in.FetcherInitErr
                THEN \* fetcher.Release() gives the fetcher and its table
                     \* arguments back.
                     /\ newResult' = ResultOf(in, "ErrFetcherInit")
                     /\ cFetcherTableArgsPool' = << ArgsReleased(args) >>
                     /\ UNCHANGED << s, owned, rf, tableArgs, colBatchScanPool >>
                ELSE LET op == WithSpans(PoolGet(colBatchScanPool, reuseOp, ZeroOp), in)
                     IN  /\ newResult' = ResultOf(in, "ok")
                         /\ cFetcherTableArgsPool' = << >>
                         /\ colBatchScanPool' = << >>
                         /\ tableArgs' = WithNeeded(args, in.NeededColumns)
                         /\ rf' = ZeroFetcher
                         /\ s' = BuildOp(op, in, args)
                         /\ owned' = TRUE

\* ------------------------------------------------------------------ Init

\* colexecop.InitHelper.Init: TRUE on the first call only (it records the
\* context).
InitHelperInit(op) == ~op.Ctx

\* Init that ignores the helper's answer.
InitProceeds_always(op) == TRUE

\* Lines 86-88: Init goes on only when the helper reports the first call.
InitProceeds(op) == InitHelperInit(op)

\* ColBatchScan.Init.  tracing: whether execinfra.ProcessorSpan opens a span;
\* startErr: whether cFetcher.StartScan returns an error, which Init raises
\* through colexecerror.InternalError.
ScanInit(tracing, startErr) ==
    /\ owned
    /\ nextPc = "idle"
    /\ UNCHANGED << owned, tableArgs, colBatchScanPool, cFetcherTableArgsPool,
                    newResult, mu, nextPc, bat, obs >>
    /\ IF ~InitProceeds(s)
       THEN /\ UNCHANGED << s, rf >>
            /\ hist' = [hist EXCEPT !.initCalls = Again(@), !.lastClose = ""]
       ELSE /\ s' = [s EXCEPT !.Ctx = TRUE, !.tracingSpan = tracing]
            /\ rf' = IF startErr THEN rf ELSE [rf EXCEPT !.fetcher = TRUE]
            /\ hist' = [hist EXCEPT
                           !.initCalls = Again(@),
                           !.lastClose = "",
                           !.startScanCalls = @ + 1,
                           !.spansOpened = @ + (IF tracing THEN 1 ELSE 0),
                           !.lastStart = IF startErr THEN "err" ELSE "ok",
                           !.failed = IF startErr THEN "StartScanErr" ELSE @]

\* ------------------------------------------------------------------ Next

\* A counter of batches instead of rows.
AddRows_perBatch(rowsRead, n) == rowsRead + 1

\* The counter assigned instead of added to.
AddRows_assigned(rowsRead, n) == n

\* Line 119: the counter after a batch of n rows.
AddRows(rowsRead, n) == rowsRead + n

\* Next without the selection-vector check.
NextRaises_noSelectionCheck(err, sel) == IF err THEN "NextBatchErr" ELSE ""

\* Next that drops the engine's error.
NextRaises_noErrorCheck(err, sel) == IF sel THEN "AssertionFailed" ELSE ""

\* Lines 112-117: what Next raises for the answer of NextBatch: the engine's
\* error as an internal error, a selection vector as an assertion failure.
NextRaises(err, sel) ==
    IF err THEN "NextBatchErr" ELSE IF sel THEN "AssertionFailed" ELSE ""

\* Next, up to the lock: one NextBatch call on the fetch engine, which answers
\* with an error or with a batch of len rows (sel: with a selection vector)
\* after reading bytes from KV, then the two checks.  A finished fetcher
\* reads nothing more and keeps returning the zero-length batch.
ScanNextFetch(len, bytes, sel, err) ==
    /\ owned
    /\ nextPc = "idle"
    /\ s.Ctx /\ rf.fetcher /\ ~rf.closed
    /\ hist.failed = ""
    /\ hist.nextCalls < MaxNext + (IF rf.finished THEN 1 ELSE 0)
    /\ rf.finished => (len = 0 /\ ~sel /\ ~err)
    /\ err => (len = 0 /\ ~sel)
    /\ UNCHANGED << s, owned, tableArgs, colBatchScanPool, cFetcherTableArgsPool,
                    newResult, mu, obs >>
    /\ rf' = [rf EXCEPT !.bytesRead = IF rf.finished THEN @ ELSE @ + bytes,
                        !.finished = @ \/ (~err /\ len = 0)]
    /\ hist' = [hist EXCEPT !.nextCalls = @ + 1,
                            !.nextBatchCalls = @ + 1,
                            !.nextSinceDrain = TRUE,
                            !.lastClose = "",
                            !.lastBatch = [sel |-> sel, err |-> err],
                            !.failed = NextRaises(err, sel)]
    /\ IF NextRaises(err, sel) # ""
       THEN /\ nextPc' = "idle"
            /\ bat' = NoBatch
       ELSE /\ nextPc' = "fetched"
            /\ bat' = [len |-> len, sel |-> sel]

\* s.mu.Lock()
ScanNextLock ==
    /\ nextPc = "fetched"
    /\ mu = "free"
    /\ mu' = "next"
    /\ nextPc' = "locked"
    /\ UNCHANGED << s, owned, rf, tableArgs, colBatchScanPool,
                    cFetcherTableArgsPool, newResult, bat, obs, hist >>

\* s.mu.rowsRead += int64(bat.Length()); s.mu.Unlock()
ScanNextAdd ==
    /\ nextPc = "locked"
    /\ s' = [s EXCEPT !.rowsRead = AddRows(@, bat.len)]
    /\ mu' = "free"
    /\ nextPc' = "unlocked"
    /\ UNCHANGED << owned, rf, tableArgs, colBatchScanPool,
                    cFetcherTableArgsPool, newResult, bat, obs, hist >>

\* return bat
ScanNextReturn ==
    /\ nextPc = "unlocked"
    /\ nextPc' = "idle"
    /\ bat' = NoBatch
    /\ hist' = [hist EXCEPT !.returned = @ + bat.len,
                            !.exhausted = @ \/ bat.len = 0]
    /\ UNCHANGED << s, owned, rf, tableArgs, colBatchScanPool,
                    cFetcherTableArgsPool, newResult, mu, obs >>

\* ------------------------------------------------------ metric accessors

\* KVFetcher.GetBytesRead on s.rf.fetcher: 0 on the nil fetcher.
GetBytesRead(f) == IF f.fetcher THEN f.bytesRead ELSE 0

GetRowsRead(op) == op.rowsRead

\* The metrics goroutine enters GetRowsRead or GetBytesRead: s.mu.Lock().
ObsLock(op) ==
    /\ owned
    /\ obs.pc = "idle"
    /\ mu = "free"
    /\ mu' = "obs"
    /\ obs' = [IdleObs EXCEPT !.pc = "locked", !.op = op]
    /\ UNCHANGED << s, owned, rf, tableArgs, colBatchScanPool,
                    cFetcherTableArgsPool, newResult, nextPc, bat, hist >>

\* The accessor reads under the lock and returns (the deferred Unlock).  lo
\* and hi record the sum of the batches Next has returned and that sum with
\* the batch of the Next in flight.
ObsReturn ==
    /\ obs.pc = "locked"
    /\ mu' = "free"
    /\ obs' = [pc |-> "idle", op |-> obs.op,
               val |-> IF obs.op = "rows" THEN GetRowsRead(s) ELSE GetBytesRead(rf),
               lo |-> hist.returned,
               hi |-> hist.returned + bat.len]
    /\ UNCHANGED << s, owned, rf, tableArgs, colBatchScanPool,
                    cFetcherTableArgsPool, newResult, nextPc, bat, hist >>

\* -------------------------------------------------------------- DrainMeta

MetaItem(kind, ranges, bytesRead, rowsRead) ==
    [kind |-> kind, ranges |-> ranges, BytesRead |-> bytesRead, RowsRead |-> rowsRead]

\* The flow-kind test inverted.
RangesMeta_localFlows(op) ==
    IF op.flowCtx.Local /\ op.flowCtx.NodeID.ok
    THEN LET ranges == MisplannedRanges(SliceElems(op.SpansCopy), op.flowCtx.NodeID.id)
         IN  IF ranges # << >> THEN << MetaItem("Ranges", ranges, 0, 0) >> ELSE << >>
    ELSE << >>

\* Lines 127-135: the misplanned ranges of a non-local flow whose node has an
\* ID, if there are any.
RangesMeta(op) ==
    IF ~op.flowCtx.Local /\ op.flowCtx.NodeID.ok
    THEN LET ranges == MisplannedRanges(SliceElems(op.SpansCopy), op.flowCtx.NodeID.id)
         IN  IF ranges # << >> THEN << MetaItem("Ranges", ranges, 0, 0) >> ELSE << >>
    ELSE << >>

\* The metrics item of the last DrainMeta (zeros before the first).
LastMetrics ==
    LET hits == { i \in 1..Len(hist.lastDrain) : hist.lastDrain[i].kind = "Metrics" }
    IN  IF hits = {} THEN MetaItem("Metrics", << >>, 0, 0)
        ELSE hist.lastDrain[CHOOSE i \in hits : TRUE]

\* Metrics reported as the increase since the last DrainMeta.
MetricsMeta_deltas(op, f) ==
    MetaItem("Metrics", << >>, GetBytesRead(f) - LastMetrics.BytesRead,
             GetRowsRead(op) - LastMetrics.RowsRead)

\* Lines 139-143: the metrics item.
MetricsMeta(op, f) == MetaItem("Metrics", << >>, GetBytesRead(f), GetRowsRead(op))

\* The metrics item appended before the transaction state.
TrailingMeta_metricsFirst(op, f, tfs, trace) ==
    RangesMeta(op)
    \o << MetricsMeta(op, f) >>
    \o (IF tfs THEN << MetaItem("LeafTxnFinalState", << >>, 0, 0) >> ELSE << >>)
    \o (IF trace THEN << MetaItem("TraceData", << >>, 0, 0) >> ELSE << >>)

\* The list DrainMeta returns.  tfs: whether the transaction has a leaf final
\* state; trace: whether the context holds trace data.
TrailingMeta(op, f, tfs, trace) ==
    RangesMeta(op)
    \o (IF tfs THEN << MetaItem("LeafTxnFinalState", << >>, 0, 0) >> ELSE << >>)
    \o << MetricsMeta(op, f) >>
    \o (IF trace THEN << MetaItem("TraceData", << >>, 0, 0) >> ELSE << >>)

\* ColBatchScan.DrainMeta, called by the owner after Init; GetBytesRead and
\* GetRowsRead inside it take s.mu.
DrainMeta(tfs, trace) ==
    /\ owned
    /\ nextPc = "idle"
    /\ s.Ctx
    /\ mu = "free"
    /\ hist' = [hist EXCEPT !.drains = Again(@),
                            !.lastClose = "",
                            !.nextSinceDrain = FALSE,
                            !.lastDrain = TrailingMeta(s, rf, tfs, trace),
                            !.drainEnv = [tfs |-> tfs, trace |-> trace]]
    /\ UNCHANGED << s, owned, rf, tableArgs, colBatchScanPool,
                    cFetcherTableArgsPool, newResult, mu, nextPc, bat, obs >>

\* ------------------------------------------------------- Close, Release

\* Close that finishes the span but keeps the handle.
SpanAfterClose_kept(op) == op.tracingSpan

\* Lines 399-402: the tracing handle after Close: nil, whether or not a span
\* was there to finish.
SpanAfterClose(op) == FALSE

\* ColBatchScan.Close: closes the cFetcher, finishes the tracing span if the
\* handle is set, and returns nil.
Close ==
    /\ owned
    /\ nextPc = "idle"
    /\ rf' = [rf EXCEPT !.closed = TRUE]
    /\ s' = [s EXCEPT !.tracingSpan = SpanAfterClose(s)]
    /\ hist' = [hist EXCEPT !.closeCalls = Again(@),
                            !.lastClose = "nil",
                            !.spansFinished = @ + (IF s.tracingSpan THEN 1 ELSE 0)]
    /\ UNCHANGED << owned, tableArgs, colBatchScanPool, cFetcherTableArgsPool,
                    newResult, mu, nextPc, bat, obs >>

\* Release that overwrites the fields without resetting the spans first.
OpReleased_noReset(op) ==
    [ZeroOp EXCEPT !.Spans = op.Spans, !.SpansCopy = op.SpansCopy]

\* Release that resets the spans but does not overwrite the other fields.
OpReleased_resetSpansOnly(op) == SpansReset(op)

\* Lines 389-392: what is put back into colBatchScanPool.
OpReleased(op) ==
    LET r == SpansReset(op)
    IN  [ZeroOp EXCEPT !.Spans = r.Spans, !.SpansCopy = r.SpansCopy]

\* Lines 386-394: Release makes no allocator call (the operator keeps no
\* reference to the allocator), so what was charged stays charged.
ReleaseCharge(charged) == charged

\* ColBatchScan.Release, after Close and with no accessor running:
\* s.rf.Release() returns the cFetcher and its cFetcherTableArgs to their
\* pools, then the operator is reset and put back.
Release ==
    /\ owned
    /\ nextPc = "idle"
    /\ obs.pc = "idle"
    /\ rf.closed
    /\ cFetcherTableArgsPool' = << ArgsReleased(tableArgs) >>
    /\ colBatchScanPool' = << OpReleased(s) >>
    /\ s' = ZeroOp
    /\ owned' = FALSE
    /\ rf' = ZeroFetcher
    /\ tableArgs' = ZeroArgs
    /\ newResult' = NoResult
    /\ obs' = IdleObs
    /\ hist' = [ZeroHist EXCEPT !.failed = hist.failed,
                                !.lastClose = hist.lastClose,
                                !.spansOpened = hist.spansOpened,
                                !.spansFinished = hist.spansFinished,
                                !.charged = ReleaseCharge(hist.charged),
                                !.gets = hist.gets,
                                !.puts = [op   |-> hist.puts.op + 1,
                                          rf   |-> hist.puts.rf + 1,
                                          args |-> hist.puts.args + 1]]
    /\ UNCHANGED << mu, nextPc, bat >>

\* ---------------------------------------------------------- specifications

\* One table shape, no limits, no failing collaborator, a usable node ID.
PlainInputs ==
    InputSet(UsableNodeIDs, BOOLEAN, SpanLists, {0}, {FALSE}, {FALSE}, {FALSE}, {{}})

\* The first query of the process: both pools are still empty.
FirstQuery(inputs) ==
    /\ colBatchScanPool = << >>
    /\ cFetcherTableArgsPool = << >>
    /\ \E in \in inputs : NewColBatchScan(in, FALSE, FALSE)

\* The owner's side of Next, for a fetch engine that reads one of byteCounts
\* bytes per call and whose answers carry the faults (an error, a selection
\* vector) that faults allows.
ScanNext(byteCounts, faults) ==
    \/ \E len \in 0..MaxBatchLen, bytes \in byteCounts, sel, err \in faults :
          ScanNextFetch(len, bytes, sel, err)
    \/ ScanNextLock
    \/ ScanNextAdd
    \/ ScanNextReturn

\* One scan of one span on a local flow, with the metrics goroutine reading
\* the counters while the owner runs Init, Next, Close and Release.
ConcurrentInputs ==
    InputSet({NoNodeID}, {TRUE}, {<< 1 >>}, {0}, {FALSE}, {FALSE}, {FALSE}, {{}})

Next ==
    \/ FirstQuery(ConcurrentInputs)
    \/ \E tracing, startErr \in BOOLEAN : ScanInit(tracing, startErr)
    \/ ScanNext(0..MaxBatchBytes, BOOLEAN)
    \/ \E op \in {"rows", "bytes"} : ObsLock(op)
    \/ ObsReturn
    \/ Close
    \/ Release

Spec == Init /\ [][Next]_vars

\* One scan per flow kind, node identity and span list, driven by the owner
\* alone through Init, Next, DrainMeta, Close and Release, with tracing off
\* and on a fetch engine that answers every NextBatch with a batch.
NextDrain ==
    \/ FirstQuery(PlainInputs)
    \/ \E startErr \in BOOLEAN : ScanInit(FALSE, startErr)
    \/ ScanNext({MaxBatchBytes}, {FALSE})
    \/ \E tfs, trace \in BOOLEAN : DrainMeta(tfs, trace)
    \/ Close
    \/ Release

SpecDrain == Init /\ [][NextDrain]_vars

\* Construction over every combination of limits, parallelization, node
\* identity and failing collaborator, on a local flow with one table shape
\* and span list; the pools hand back what was released.
LimitInputs ==
    InputSet(NodeIDs, {TRUE}, {<< 1 >>}, 0..MaxLimit, BOOLEAN, {FALSE}, BOOLEAN, {{}})

NextLimits ==
    \/ \E in \in LimitInputs : NewColBatchScan(in, TRUE, TRUE)
    \/ Close
    \/ Release

SpecLimits == Init /\ [][NextLimits]_vars

\* Construction and release over every span list and table shape, with both
\* pools handing out released or new objects and no failing collaborator
\* (SpecLimits has the failures).
PoolInputs ==
    InputSet({NoNodeID}, BOOLEAN, SpanLists, {0}, {FALSE}, BOOLEAN, {FALSE}, {{}})

NextPool ==
    \/ \E in \in PoolInputs, reuseArgs, reuseOp \in BOOLEAN :
          NewColBatchScan(in, reuseArgs, reuseOp)
    \/ Close
    \/ Release

SpecPool == Init /\ [][NextPool]_vars

\* Construction over every table shape and every set of needed ordinals, on a
\* local flow with one span; the pools hand back what was released.
ProjectionInputs ==
    InputSet({NoNodeID}, {TRUE}, {<< 1 >>}, {0}, {FALSE}, BOOLEAN, {FALSE},
             SUBSET (0..MaxOrdinal))

NextProjection ==
    \/ \E in \in ProjectionInputs : NewColBatchScan(in, TRUE, TRUE)
    \/ Close
    \/ Release

SpecProjection == Init /\ [][NextProjection]_vars

\* Query after query on one operator: every construction takes what the last
\* Release put into the pools, for each flow kind and span list, and the
\* owner runs Init, Next, Close and Release.
ReuseInputs ==
    InputSet({NoNodeID}, BOOLEAN, SpanLists, {0}, {FALSE}, {FALSE}, {FALSE}, {{}})

NextReuse ==
    \/ \E in \in ReuseInputs : NewColBatchScan(in, TRUE, TRUE)
    \/ \E tracing, startErr \in BOOLEAN : ScanInit(tracing, startErr)
    \/ ScanNext({MaxBatchBytes}, {FALSE})
    \/ Close
    \/ Release

SpecReuse == Init /\ [][NextReuse]_vars

\* -------------------------------------------------------------- properties

\* C1: once the Next calls made so far have returned, GetRowsRead returns the
\* sum of the lengths of the batches they returned; a GetRowsRead that ran
\* while a Next was in flight returned that sum either without or with the
\* batch of that Next, and nothing else.
RowsReadIsSumOfBatches ==
    /\ (owned /\ nextPc = "idle") => GetRowsRead(s) = hist.returned
    /\ (obs.pc = "idle" /\ obs.op = "rows") => obs.val \in {obs.lo, obs.hi}

\* A GetRowsRead that ran during the second Next and saw its batch counted.
RowsReadDuringNext ==
    /\ obs.pc = "idle" /\ obs.op = "rows"
    /\ obs.lo > 0 /\ obs.hi > obs.lo
    /\ obs.val = obs.hi
    /\ nextPc = "unlocked"

MetaOrder == << "Ranges", "LeafTxnFinalState", "Metrics", "TraceData" >>

KindRank(kind) == CHOOSE i \in 1..Len(MetaOrder) : MetaOrder[i] = kind

HasKind(meta, kind) == \E i \in 1..Len(meta) : meta[i].kind = kind

\* The ranges of the retained span copy that lie outside node nodeID.
OutsideNode(op, nodeID) ==
    { i \in 1..op.SpansCopy.len : RangeNode(op.SpansCopy.arr[i]) # nodeID }

\* C2: the list DrainMeta returned is a subsequence of [ranges, leaf-txn final
\* state, metrics, trace data]: each kind at most once and in that order, and
\* no item for a step that had no data (nil ranges, no final state, no trace).
DrainMetaOrdered ==
    hist.drains > 0 =>
        LET meta == hist.lastDrain
        IN  /\ \A i \in 1..Len(meta) :
                  \E r \in 1..Len(MetaOrder) : meta[i].kind = MetaOrder[r]
            /\ \A i, j \in 1..Len(meta) :
                  i < j => KindRank(meta[i].kind) < KindRank(meta[j].kind)
            /\ \A i \in 1..Len(meta) :
                  meta[i].kind = "Ranges" => meta[i].ranges # << >>
            /\ OutsideNode(s, s.flowCtx.NodeID.id) = {} => ~HasKind(meta, "Ranges")
            /\ ~hist.drainEnv.tfs => ~HasKind(meta, "LeafTxnFinalState")
            /\ ~hist.drainEnv.trace => ~HasKind(meta, "TraceData")

\* A DrainMeta that returned all four kinds.
DrainMetaFull == hist.drains > 0 /\ Len(hist.lastDrain) = Len(MetaOrder)

\* C3 as stated: a local flow never gets a misplanned-range item, and a
\* non-local flow gets one whenever a range of the span copy lies outside the
\* local node.
RangesWheneverDistributed ==
    hist.drains > 0 =>
        /\ s.flowCtx.Local => ~HasKind(hist.lastDrain, "Ranges")
        /\ (~s.flowCtx.Local /\ OutsideNode(s, s.flowCtx.NodeID.id) # {})
              => HasKind(hist.lastDrain, "Ranges")

\* C3, amended: a local flow never gets a misplanned-range item, and a
\* non-local flow whose node identity is present gets one whenever a range of
\* the span copy lies outside the local node.
RangesWhenDistributedWithNodeID ==
    hist.drains > 0 =>
        /\ s.flowCtx.Local => ~HasKind(hist.lastDrain, "Ranges")
        /\ (~s.flowCtx.Local /\ s.flowCtx.NodeID.ok
               /\ OutsideNode(s, s.flowCtx.NodeID.id) # {})
              => HasKind(hist.lastDrain, "Ranges")

\* A non-local DrainMeta on node 1 over a local and a remote range.
RangesReported ==
    /\ hist.drains > 0
    /\ ~s.flowCtx.Local /\ s.flowCtx.NodeID.ok
    /\ s.SpansCopy.len = 2
    /\ Cardinality(OutsideNode(s, s.flowCtx.NodeID.id)) = 1
    /\ HasKind(hist.lastDrain, "Ranges")

\* C4: the metrics item carries totals: as long as no Next has run since the
\* last DrainMeta, its BytesRead and RowsRead are what GetBytesRead and
\* GetRowsRead return, so a second DrainMeta reports the same values.
DrainMetricsAreTotals ==
    (hist.drains > 0 /\ ~hist.nextSinceDrain) =>
        /\ HasKind(hist.lastDrain, "Metrics")
        /\ LastMetrics.BytesRead = GetBytesRead(rf)
        /\ LastMetrics.RowsRead = GetRowsRead(s)

\* Two DrainMeta calls in a row after rows and bytes were read.
DrainedTwice ==
    /\ hist.drains = 2 /\ ~hist.nextSinceDrain
    /\ GetRowsRead(s) > 0 /\ GetBytesRead(rf) > 0
    /\ LastMetrics.RowsRead # LastMetrics.BytesRead

\* The specification asked for parallelization together with a positive
\* limit hint or byte limit.
ParallelizeWithLimit(in) ==
    in.Parallelize /\ (in.LimitHint > 0 \/ in.BatchBytesLimit > 0)

\* C5: a specification that asks for parallelization together with a positive
\* LimitHint or BatchBytesLimit is not rejected for it (construction fails
\* only for a zero node ID, IsCheck, type hydration or cFetcher.Init), and the
\* operator has parallelize false and the byte limit kept: the spec's
\* BatchBytesLimit when positive, else the default.
ParallelizeYieldsToLimit ==
    ParallelizeWithLimit(newResult.in) =>
        /\ newResult.status # "ok" =>
              \/ (newResult.in.NodeID.ok /\ newResult.in.NodeID.id = 0)
              \/ newResult.in.IsCheck
              \/ newResult.in.HydrateErr
              \/ newResult.in.FetcherInitErr
        /\ newResult.status = "ok" =>
              /\ owned
              /\ ~s.parallelize
              /\ s.batchBytesLimit =
                    IF newResult.in.BatchBytesLimit > 0
                    THEN newResult.in.BatchBytesLimit
                    ELSE DefaultBatchBytesLimit

\* An operator built from a parallel spec with a limit hint and no byte limit.
ParallelizeDropped ==
    /\ owned /\ newResult.status = "ok"
    /\ newResult.in.Parallelize
    /\ newResult.in.LimitHint > 0 /\ newResult.in.BatchBytesLimit = 0

\* C6: every constructed operator with a non-zero limit hint or a non-zero
\* byte limit has parallelize false.
LimitsExcludeParallelize ==
    owned => ((s.limitHint # 0 \/ s.batchBytesLimit # 0) => ~s.parallelize)

\* C7: when the fetch engine answered with a batch that has a selection
\* vector, Next failed with the assertion error, returned no batch and left
\* the rows-read counter where it was.
SelectionVectorFailsNext ==
    hist.lastBatch.sel =>
        /\ hist.failed = "AssertionFailed"
        /\ nextPc = "idle" /\ bat = NoBatch
        /\ GetRowsRead(s) = hist.returned

\* A selection vector on the batch after one that was returned with rows.
SelectionVectorSeen == hist.lastBatch.sel /\ hist.returned > 0

\* C8: an error of StartScan or NextBatch is raised after that one call (Init
\* calls StartScan once, every Next calls NextBatch once), no batch is
\* returned and the rows-read counter is left where it was.
FetchErrorsAreRaised ==
    /\ hist.nextBatchCalls = hist.nextCalls
    /\ hist.lastStart = "err" =>
          /\ hist.failed = "StartScanErr"
          /\ hist.startScanCalls = 1
          /\ hist.nextCalls = 0
          /\ GetRowsRead(s) = 0
    /\ hist.lastBatch.err =>
          /\ hist.failed = "NextBatchErr"
          /\ nextPc = "idle" /\ bat = NoBatch
          /\ GetRowsRead(s) = hist.returned

\* NextBatch failed after a batch with rows had been returned.
NextBatchFailed == hist.lastBatch.err /\ hist.returned > 0

\* C9: StartScan runs at most once and at most one tracing span is opened per
\* operator, and an Init after the first changes neither the operator nor the
\* fetcher.
InitOnlyOnce ==
    /\ [](hist.startScanCalls <= 1 /\ hist.spansOpened <= 1)
    /\ [][(hist.initCalls = 1 /\ hist.initCalls' = 2)
             => (s' = s /\ rf' = rf
                 /\ hist'.startScanCalls = hist.startScanCalls
                 /\ hist'.spansOpened = hist.spansOpened)]_vars

\* Init called again on an operator that has started its scan under a span.
InitRepeated ==
    hist.initCalls = 2 /\ hist.startScanCalls = 1 /\ hist.spansOpened = 1

\* Every released operator and descriptor has only empty sequences, and no
\* slot behind the spans, the span copy or the columns references anything.
PooledSpansAndColumnsClear ==
    /\ \A i \in 1..Len(colBatchScanPool) :
          /\ colBatchScanPool[i].Spans.len = 0
          /\ colBatchScanPool[i].SpansCopy.len = 0
          /\ BackingClear(colBatchScanPool[i].Spans)
          /\ BackingClear(colBatchScanPool[i].SpansCopy)
    /\ \A i \in 1..Len(cFetcherTableArgsPool) :
          /\ cFetcherTableArgsPool[i].cols.len = 0
          /\ cFetcherTableArgsPool[i].typs.len = 0
          /\ BackingClear(cFetcherTableArgsPool[i].cols)

\* C10 as stated: once an operator and its descriptor are released, they have
\* only empty sequences and no slot of their backing storage references a
\* span key, a column or a type.
PooledObjectsHoldNothing ==
    (colBatchScanPool # << >> /\ cFetcherTableArgsPool # << >>) =>
        /\ PooledSpansAndColumnsClear
        /\ \A i \in 1..Len(cFetcherTableArgsPool) :
              BackingClear(cFetcherTableArgsPool[i].typs)

\* C10, amended: released objects have only empty sequences and no slot
\* behind the spans, the span copy or the columns references anything; the
\* types are only truncated, and the descriptor in use never shows a type (or
\* a column) of an earlier query, because populateTableArgs starts from a new
\* types slice.
PooledObjectsHoldNoSpansOrColumns ==
    /\ PooledSpansAndColumnsClear
    /\ owned =>
          /\ SliceCap(tableArgs.typs) = tableArgs.typs.len
          /\ \A i \in 1..tableArgs.typs.len :
                tableArgs.typs.arr[i] = GetType(tableArgs.cols.arr[i])
          /\ \A i \in 1..SliceCap(tableArgs.cols) :
                i > tableArgs.cols.len => tableArgs.cols.arr[i] = 0
          /\ \A i \in 1..SliceCap(s.SpansCopy) :
                i > s.SpansCopy.len => s.SpansCopy.arr[i] = 0

\* Both objects are back in their pools after a non-local scan of two spans.
ReleasedAfterScan ==
    /\ ~owned
    /\ colBatchScanPool # << >> /\ cFetcherTableArgsPool # << >>
    /\ SliceCap(colBatchScanPool[1].SpansCopy) = 2
    /\ SliceCap(cFetcherTableArgsPool[1].cols) > 0
    /\ ~BackingClear(cFetcherTableArgsPool[1].typs)

\* C11: the objects one NewColBatchScan call takes from colBatchScanPool,
\* cFetcherPool and cFetcherTableArgsPool are each put back exactly once:
\* never more Put than Get calls, and as many once the call has failed or the
\* operator it returned has been released.
PooledObjectsReturnedOnce ==
    /\ \A p \in DOMAIN hist.gets : hist.puts[p] <= hist.gets[p]
    /\ ~owned => hist.puts = hist.gets

\* C12: what NewColBatchScan charged to the allocator for the span copy of a
\* non-local operator has been given back once that operator is released, so
\* that nothing stays charged over construct/Release cycles.
SpanCopyChargeGivenBack == ~owned => hist.charged = 0

\* C13: every Close leaves the fetch engine closed and returns nil; a tracing
\* span is finished only if Init opened it and never twice, the handle is set
\* exactly while an opened span is not yet finished, and after a Close no
\* opened span is left unfinished.
CloseFinishesSpanOnce ==
    /\ hist.spansFinished <= hist.spansOpened
    /\ owned => (s.tracingSpan <=> hist.spansOpened > hist.spansFinished)
    /\ hist.closeCalls > 0 => rf.closed
    /\ hist.lastClose \in {"", "nil"}
    /\ (owned /\ hist.lastClose = "nil") =>
          /\ hist.closeCalls > 0
          /\ ~s.tracingSpan
          /\ hist.spansFinished = hist.spansOpened

\* A second Close after the first one finished the span Init had opened.
ClosedTwiceAfterTracing ==
    /\ hist.closeCalls = 2 /\ hist.lastClose = "nil"
    /\ hist.spansOpened = 1 /\ hist.spansFinished = 1

CountersGrowThenFreeze ==
    [][(owned /\ owned') =>
          /\ GetRowsRead(s') >= GetRowsRead(s)
          /\ hist.exhausted =>
                /\ hist'.exhausted
                /\ GetRowsRead(s') = GetRowsRead(s)
                /\ GetBytesRead(rf') = GetBytesRead(rf)]_vars

\* After rows and bytes were read and the scan was exhausted, one more Next
\* returned an empty batch, and the operator was drained and closed.
ReadAfterExhaustion ==
    /\ owned /\ hist.exhausted /\ nextPc = "idle"
    /\ hist.nextCalls = MaxNext + 1
    /\ GetRowsRead(s) > 0 /\ GetBytesRead(rf) > 0
    /\ hist.drains > 0 /\ hist.closeCalls > 0

\* C16: GetBytesRead returns 0 as long as Init was never called, and while a
\* GetBytesRead call holds s.mu the fetcher does not become initialized: no
\* step taken between its Lock and its return sets s.rf.fetcher.
BytesReadHoldsOffInit ==
    /\ [](owned /\ hist.initCalls = 0 => GetBytesRead(rf) = 0)
    /\ [][(obs.pc = "locked" /\ obs.op = "bytes" /\ mu = "obs")
             => rf'.fetcher = rf.fetcher]_vars

\* C17: when populateTableArgs gets a released descriptor whose columns and
\* types capacities both suffice for the n columns of the new projection,
\* it allocates neither a new columns slice nor a new types slice.
CapacityReusedOnReacquire ==
    LET a == hist.acquired
    IN  (a.reused /\ a.n <= a.capCols /\ a.n <= a.capTyps) =>
            (~a.newCols /\ ~a.newTyps)

\* Position i of the projection holds column col, or its inverted variant
\* when the inverted column was asked for and has col's ID.
HoldsColumn(a, i, col, inverted) ==
    a.cols.arr[i] = (IF inverted /\ GetID(InvertedCol) = GetID(col)
                     THEN InvertedCol ELSE col)

\* C18: the projection of every constructed operator has as many types as
\* columns, types[i] being the type of columns[i]; the columns are the
\* table's public or readable columns in order, with the inverted column in
\* the place of its base column, followed by the system columns if asked for;
\* and every ordinal of the needed set is less than the number of columns.
ProjectionWellFormed ==
    owned =>
        LET a == tableArgs
            in == newResult.in
            user == IF in.PublicAndNotPublic THEN ReadableColumns ELSE PublicColumns
            all == IF in.HasSystemColumns THEN user \o SystemColumns ELSE user
        IN  /\ a.typs.len = a.cols.len
            /\ \A i \in 1..a.cols.len : a.typs.arr[i] = GetType(a.cols.arr[i])
            /\ s.ResultTypes = SliceElems(a.typs)
            /\ a.cols.len = Len(all)
            /\ \A i \in 1..Len(user) : HoldsColumn(a, i, user[i], in.Inverted)
            /\ \A i \in (Len(user) + 1)..Len(all) : a.cols.arr[i] = all[i]
            /\ \A o \in a.ValNeededForCol : o < a.cols.len

\* The operator in colBatchScanPool has every field at its zero value and
\* empty, cleared spans.
PooledOpReset ==
    /\ Len(colBatchScanPool) = 1
    /\ LET op == colBatchScanPool[1]
       IN  /\ op = [ZeroOp EXCEPT !.Spans = op.Spans, !.SpansCopy = op.SpansCopy]
           /\ op.Spans.len = 0 /\ op.SpansCopy.len = 0
           /\ BackingClear(op.Spans) /\ BackingClear(op.SpansCopy)

\* C19: when Init has failed on the error of StartScan, the Close that
\* follows finishes the tracing span Init had opened, once, and after the
\* Release that follows that Close the fetcher has been put back once and the
\* operator is in its pool with every field reset.
FailedInitCleansUp ==
    (hist.failed = "StartScanErr" /\ hist.lastClose = "nil") =>
        /\ hist.spansFinished <= hist.spansOpened
        /\ owned => (~s.tracingSpan /\ hist.spansFinished = hist.spansOpened)
        /\ ~owned =>
              /\ hist.spansFinished = hist.spansOpened
              /\ hist.gets.rf = 1 /\ hist.puts.rf = 1
              /\ hist.gets.op = 1 /\ hist.puts.op = 1
              /\ PooledOpReset

\* Released after an Init that opened a span and then failed in StartScan.
ReleasedAfterFailedInit ==
    /\ ~owned /\ hist.failed = "StartScanErr" /\ hist.lastClose = "nil"
    /\ hist.spansOpened = 1 /\ hist.spansFinished = 1
    /\ hist.puts.op = 1

\* No slot behind the visible part of the slice references anything.
NothingBehind(sl) == \A i \in 1..SliceCap(sl) : i > sl.len => sl.arr[i] = 0

\* C20: an operator that NewColBatchScan took from the pool after a Release
\* is as a new one: before Init its rows-read counter is 0, it has no tracing
\* span and its init guard is clear, its first Init starts the scan, the
\* counter counts the rows of this query only, and its spans (and span copy,
\* on a non-local flow) are the new specification's spans in order, with
\* nothing of an earlier query behind them.
ReusedOperatorIsFresh ==
    (owned /\ hist.opReused) =>
        /\ hist.initCalls = 0 =>
              /\ GetRowsRead(s) = 0 /\ ~s.tracingSpan
              /\ ~s.Ctx /\ InitHelperInit(s)
        /\ hist.initCalls > 0 => hist.startScanCalls = 1
        /\ nextPc = "idle" => GetRowsRead(s) = hist.returned
        /\ SliceElems(s.Spans) = newResult.in.Spans
        /\ SliceElems(s.SpansCopy) =
              (IF newResult.in.Local THEN << >> ELSE newResult.in.Spans)
        /\ NothingBehind(s.Spans) /\ NothingBehind(s.SpansCopy)

\* A reused operator whose span copy has room left from a larger earlier
\* query, scanning one span: its Init started the scan and Next returned rows.
ReusedOperatorScans ==
    /\ owned /\ hist.opReused
    /\ hist.startScanCalls = 1 /\ hist.returned > 0
    /\ s.Spans.len = 1
    /\ SliceCap(s.SpansCopy) > s.Spans.len

====
